---- MODULE Spec2Model ----
\* owpm: manifest -> lock (threaded, sqlite lockfile) -> build cache.
\* One CLI command runs as one process: it loads the manifest, runs its
\* handler, and the interpreter exits once every non-daemon lock thread ended.
EXTENDS Integers, Sequences, FiniteSets, TLC

\* ------------------------------------------------------------------ bounds
MaxOps == 2   \* commands run in one behaviour
MaxPin == 1   \* pins are drawn from 0..MaxPin (the code draws from 0..999)

\* ------------------------------------------------------- program constants
OWPM_LOCKFILE_VERSION == 1
PinAttempts == 45

NoHash == <<>>        \* the empty string as a lockfile_hash
NoDigest == ""        \* no sha256 digest
NonePin == -1         \* Python None as a pin (directory owpm_venv/None)
Star == <<"*">>       \* the requirement "*"

\* ------------------------------------------------------------- the registry
\* A fixed mock of pypi.org/pypi/<name>/json. A requirement string is the
\* sequence of its tokens; versions are integers, in the order of "releases".
Versions == {1, 2, 3}

Registry ==
  [a |-> [requires_dist |-> <<>>,
          urls |-> <<"ha">>,
          releases |-> << [version |-> 1, content |-> <<"ha">>] >>],
   b |-> [requires_dist |-> <<>>,
          urls |-> <<"hb">>,
          releases |-> << [version |-> 1, content |-> <<"hb">>] >>],
   c |-> [requires_dist |-> << <<"e">> >>,
          urls |-> <<"hc3">>,
          releases |-> << [version |-> 1, content |-> <<>>],
                          [version |-> 2, content |-> <<"hc2">>],
                          [version |-> 3, content |-> <<"hc3">>] >>],
   d |-> [requires_dist |-> <<>>,
          urls |-> <<"hd3", "hd3x">>,
          releases |-> << [version |-> 3, content |-> <<"hd3", "hd3x">>],
                          [version |-> 2, content |-> <<"hd2">>] >>],
   e |-> [requires_dist |-> <<>>,
          urls |-> <<>>,
          releases |-> << [version |-> 1, content |-> <<>>] >>],
   p |-> [requires_dist |-> << <<"c">>, <<"c", " ", "(>=2)", ";", "extra">> >>,
          urls |-> <<"hp">>,
          releases |-> << [version |-> 1, content |-> <<"hp">>] >>],
   q |-> [requires_dist |-> << <<"g">> >>,
          urls |-> <<"hq">>,
          releases |-> << [version |-> 1, content |-> <<"hq">>] >>],
   s |-> [requires_dist |-> << <<"c">> >>,
          urls |-> <<"hs">>,
          releases |-> << [version |-> 1, content |-> <<"hs">>] >>],
   t |-> [requires_dist |-> << <<"c", " ", "(>=3)">> >>,
          urls |-> <<"ht">>,
          releases |-> << [version |-> 1, content |-> <<"ht">>] >>],
   x |-> [requires_dist |-> << <<"x">> >>,
          urls |-> <<"hx">>,
          releases |-> << [version |-> 1, content |-> <<"hx">>] >>],
   y |-> [requires_dist |-> << <<"z">> >>,
          urls |-> <<"hy">>,
          releases |-> << [version |-> 1, content |-> <<"hy">>] >>],
   z |-> [requires_dist |-> << <<"y">> >>,
          urls |-> <<"hz">>,
          releases |-> << [version |-> 1, content |-> <<"hz">>] >>]]

\* Names the registry answers for with a transient non-200, non-404 status.
Flaky == {"q"}

\* The HTTP statuses a request for `name` can get.
Responses(name) ==
  IF name \in DOMAIN Registry
  THEN IF name \in Flaky THEN {200, 503} ELSE {200}
  ELSE {404}

NoJson == [requires_dist |-> <<>>, urls |-> <<>>, releases |-> <<>>]

\* _pypi_req taking 404 for any other failure.
_pypi_req_404_as_down(name, status) ==
  IF status = 200 THEN [err |-> "", json |-> Registry[name]]
  ELSE [err |-> "ExceptionApiDown", json |-> NoJson]

\* _pypi_req: the response body, or the exception raised.
_pypi_req(name, status) ==
  IF status = 200 THEN [err |-> "", json |-> Registry[name]]
  ELSE IF status = 404
       THEN [err |-> "ExceptionPackageNotFound", json |-> NoJson]
       ELSE [err |-> "ExceptionApiDown", json |-> NoJson]

\* ------------------------------------------------------ requirement strings
\* s.split(sep)[0] on a token sequence: the tokens before the first sep.
RECURSIVE SplitFirst(_, _)
SplitFirst(s, sep) ==
  IF s = <<>> \/ Head(s) = sep THEN <<>>
  ELSE <<Head(s)>> \o SplitFirst(Tail(s), sep)

\* subpackage.split(";")[0].split(" ")[0]
SubpkgName(subpackage) ==
  LET t == SplitFirst(SplitFirst(subpackage, ";"), " ")
  IN IF t = <<>> THEN "" ELSE t[1]

\* packaging's specifier tokens and the versions each admits.
SpecifierTokens == [tok \in {"(>=2)", ">=2", "(>=3)", "(>=4)"} |->
                      IF tok \in {"(>=2)", ">=2"} THEN {v \in Versions : v >= 2}
                      ELSE IF tok = "(>=3)" THEN {v \in Versions : v >= 3}
                      ELSE {v \in Versions : v >= 4}]

\* Requirement(version_req) parses: the string starts with a package name.
ParsesAsRequirement(req) ==
  /\ req # <<>>
  /\ Head(req) \notin DOMAIN SpecifierTokens \cup {";", " ", "*"}

\* Requirement(version_req).specifier: the versions the requirement admits
\* (markers after ";" are no part of the specifier).
RECURSIVE SpecifierOf(_)
SpecifierOf(req) ==
  IF req = <<>> \/ Head(req) = ";" THEN Versions
  ELSE (IF Head(req) \in DOMAIN SpecifierTokens
        THEN SpecifierTokens[Head(req)] ELSE Versions)
       \cap SpecifierOf(Tail(req))

\* The first release, in registry order, that matches and has content.
RECURSIVE FirstRelease(_, _)
FirstRelease(releases, specifier) ==
  IF releases = <<>> THEN NoDigest
  ELSE IF Head(releases).version \in specifier /\ Len(Head(releases).content) > 0
       THEN Head(releases).content[1]
       ELSE FirstRelease(Tail(releases), specifier)

\* Package.get_hash taking the last of "urls".
get_hash_last_url(version_req, json) ==
  IF version_req = Star
  THEN IF Len(json.urls) = 0 THEN NoDigest ELSE json.urls[Len(json.urls)]
  ELSE IF ParsesAsRequirement(version_req)
       THEN FirstRelease(json.releases, SpecifierOf(version_req))
       ELSE NoDigest

\* Package.get_hash: the digest, or NoDigest when it raises.
get_hash(version_req, json) ==
  IF version_req = Star
  THEN IF Len(json.urls) = 0 THEN NoDigest ELSE json.urls[1]
  ELSE IF ParsesAsRequirement(version_req)
       THEN FirstRelease(json.releases, SpecifierOf(version_req))
       ELSE NoDigest

\* The exception Package.get_hash raises, "" for none.
get_hash_err(version_req, json) ==
  IF version_req # Star /\ ~ParsesAsRequirement(version_req)
  THEN "InvalidRequirement"
  ELSE IF get_hash(version_req, json) = NoDigest THEN "ExceptionVersionError"
       ELSE ""

\* ------------------------------------------------------------- the manifest
Package(name, version_req, is_dev, is_dep) ==
  [name |-> name, version_req |-> version_req, is_dev |-> is_dev, is_dep |-> is_dep]

\* A dict filled by d[name] = req in list order: a name keeps the place of its
\* first entry and the value of its last.
RECURSIVE DictOf(_)
DictOf(pkgs) ==
  IF pkgs = <<>> THEN <<>>
  ELSE LET rest == DictOf(SubSeq(pkgs, 1, Len(pkgs) - 1))
           last == pkgs[Len(pkgs)]
       IN IF \E i \in 1..Len(rest) : rest[i].name = last.name
          THEN [i \in 1..Len(rest) |->
                  IF rest[i].name = last.name THEN last ELSE rest[i]]
          ELSE Append(rest, last)

\* save_proj then project_from_toml: "packages" first, "dev-packages" after,
\* every entry a root package.
RootOf(p) == Package(p.name, p.version_req, p.is_dev, FALSE)

save_proj(pkgs) ==
  LET roots == [i \in 1..Len(pkgs) |-> RootOf(pkgs[i])]
  IN DictOf(SelectSeq(roots, LAMBDA p : ~p.is_dev))
     \o DictOf(SelectSeq(roots, LAMBDA p : p.is_dev))

\* ------------------------------------------------------------- the lockfile
NoLockfile == [exists |-> FALSE, user_version |-> 0, rows |-> <<>>]

\* lock_proj's fresh database: the empty lock table and the user_version.
NewLockfile == [exists |-> TRUE, user_version |-> OWPM_LOCKFILE_VERSION, rows |-> <<>>]

\* _hash_lockfile: md5 of the file's bytes, taken as collision-free: the digest
\* stands for the stored version and the rows in insertion order.
_hash_lockfile(file) == <<file.user_version>> \o file.rows

\* _compare_lock_hash
_compare_lock_hash(file, lockfile_hash) == _hash_lockfile(file) = lockfile_hash

\* The row _nthread_lock_package inserts.
LockRow(p, made_hash) ==
  [name |-> p.name, version |-> p.version_req, hash |-> made_hash,
   is_dev |-> p.is_dev, is_dep |-> p.is_dep]

\* "SELECT * FROM lock WHERE hash=..." finds a row.
HashInLock(file, made_hash) ==
  \E i \in 1..Len(file.rows) : file.rows[i].hash = made_hash

\* _verify_lockfile_version with its test left out.
_verify_lockfile_version_off(user_version) == ""

\* _verify_lockfile_version: the exception it raises, "" for none.
_verify_lockfile_version(user_version) ==
  IF user_version # OWPM_LOCKFILE_VERSION THEN "ExceptionOldLockfileSpec" ELSE ""

\* ------------------------------------------------------- virtual environments
NoVenv == NonePin - 1  \* no environment handle

Pins == 0..MaxPin

\* OwpmVenv._get_pin: the first of PinAttempts random draws whose directory
\* does not exist; None when every draw hits an existing directory.
_get_pin(dirs) ==
  {pin \in Pins : pin \notin dirs}
  \cup (IF PinAttempts = 0 \/ (Pins \cap dirs) # {} THEN {NonePin} ELSE {})

\* OwpmVenv(pin, is_active).delete() on the directories `dirs`.
OwpmVenv_delete(pin, is_active, dirs) ==
  IF (is_active \/ pin \in dirs) /\ pin \in dirs
  THEN [venvs |-> dirs \ {pin}, err |-> ""]
  ELSE [venvs |-> dirs, err |-> "ExceptionVenvInactive"]

\* The cache file owpm_venv.toml; {} and a missing file read the same.
EmptyStatus ==
  [set |-> FALSE, has_pin |-> FALSE, pin |-> NonePin, lockfile_hash |-> NoHash,
   force_lock |-> FALSE, use_dev_deps |-> FALSE]

\* _set_venv_status of build_proj's record; toml.dump drops a key whose value
\* is None.
NewStatus(pin, hash, force_lock, use_dev_deps) ==
  [set |-> TRUE, has_pin |-> pin # NonePin, pin |-> pin, lockfile_hash |-> hash,
   force_lock |-> force_lock, use_dev_deps |-> use_dev_deps]

\* build_proj's select_query.
SelectQuery(rows, use_dev_deps) ==
  IF ~use_dev_deps
  THEN SelectSeq(rows, LAMBDA r : ~r.is_dep)
  ELSE SelectSeq(rows, LAMBDA r : ~r.is_dev /\ ~r.is_dep)

\* -------------------------------------------------------------------- state
VARIABLES
  manifest,       \* <name>.owpm: the root packages and lockfile_hash
  lockfile,       \* <name>.owpmlock
  venv_status,    \* owpm_venv.toml
  venvs,          \* pins whose directory exists under owpm_venv/
  pc,             \* where the command's main thread stands
  cmd,            \* the running command and its flags
  packages,       \* Project.packages of the running process
  lockfile_hash,  \* Project.lockfile_hash of the running process
  idx,            \* index of the running for loop
  ncopy,          \* len(self.packages.copy()) in lock_proj
  threads,        \* one lock thread per package
  found_non_deps, \* the rows build_proj selected
  ret,            \* what the command's calls returned or raised
  hist,           \* what the running command has done so far
  prev,           \* the command that ran before
  nops            \* commands started

vars == <<manifest, lockfile, venv_status, venvs, pc, cmd, packages, lockfile_hash,
          idx, ncopy, threads, found_non_deps, ret, hist, prev, nops>>

ondisk == <<manifest, lockfile, venv_status, venvs>>

\* hist: entry = the files when the command started; installs = the rows handed
\* to pip; fetches = requests sent to the registry; hashed = the lockfile digest
\* was taken; late = a thread inserted after that; created = the pin of the new
\* venv; seen = the lockfile rows when build_proj ran its SELECT.
NoRet == [lock |-> "none", error |-> "", venv |-> NoVenv, reused |-> FALSE]
NoCmd == [op |-> "none", force_lock |-> FALSE, use_dev_deps |-> FALSE]
NoHist == [entry |-> [manifest |-> [packages |-> <<>>, lockfile_hash |-> NoHash],
                      lockfile |-> NoLockfile, venv_status |-> EmptyStatus,
                      venvs |-> {}],
           installs |-> <<>>, fetches |-> 0, hashed |-> FALSE, late |-> FALSE,
           created |-> NoVenv, seen |-> <<>>]
NoPrev == [cmd |-> NoCmd, ret |-> NoRet]

\* A root package as `owpm add` writes it.
Root(name, is_dev) == Package(name, Star, is_dev, FALSE)

\* The state `owpm init` and some `owpm add` leave: a manifest that was never
\* locked, no lockfile, no venv.
InitWith(manifests) ==
  /\ manifest \in [packages : manifests, lockfile_hash : {NoHash}]
  /\ lockfile = NoLockfile
  /\ venv_status = EmptyStatus
  /\ venvs = {}
  /\ pc = "idle"
  /\ cmd = NoCmd
  /\ packages = <<>>
  /\ lockfile_hash = NoHash
  /\ idx = 1
  /\ ncopy = 0
  /\ threads = <<>>
  /\ found_non_deps = <<>>
  /\ ret = NoRet
  /\ hist = NoHist
  /\ prev = NoPrev
  /\ nops = 0

HistAtEntry ==
  [NoHist EXCEPT !.entry = [manifest |-> manifest, lockfile |-> lockfile,
                            venv_status |-> venv_status, venvs |-> venvs]]

Raise(error) ==
  /\ ret' = [ret EXCEPT !.error = error]
  /\ pc' = "exit"

\* --------------------------------------------------------------- lock_proj
\* The smart-lock test with force_lock left out.
SmartLocked_unforced(force_lock, file, hash) ==
  file.exists /\ _compare_lock_hash(file, hash)

\* The smart-lock test of lock_proj.
SmartLocked(force_lock, file, hash) ==
  ~force_lock /\ file.exists /\ _compare_lock_hash(file, hash)

\* first_project_indir, then lock_proj up to the fresh database.
StartLockProj(op, force_lock, use_dev_deps) ==
  /\ pc = "idle"
  /\ nops < MaxOps
  /\ nops' = nops + 1
  /\ cmd' = [op |-> op, force_lock |-> force_lock, use_dev_deps |-> use_dev_deps]
  /\ hist' = HistAtEntry
  /\ packages' = manifest.packages
  /\ lockfile_hash' = manifest.lockfile_hash
  /\ idx' = 1
  /\ ncopy' = Len(manifest.packages)
  /\ IF SmartLocked(force_lock, lockfile, manifest.lockfile_hash)
     THEN /\ ret' = [NoRet EXCEPT !.lock = "true"]
          /\ pc' = IF op = "lock" THEN "exit" ELSE "build_cache"
          /\ lockfile' = lockfile
     ELSE /\ ret' = NoRet
          /\ pc' = "get_subpackages"
          /\ lockfile' = NewLockfile
  /\ UNCHANGED <<manifest, venv_status, venvs, threads, found_non_deps, prev>>

Lock(force_lock) == StartLockProj("lock", force_lock, FALSE)

Build(force_lock, use_dev_deps) == StartLockProj("build", force_lock, use_dev_deps)

\* The packages get_subpackages appends for one response.
Subpackages(parent, json) ==
  [j \in 1..Len(json.requires_dist) |->
     Package(SubpkgName(json.requires_dist[j]), json.requires_dist[j],
             parent.is_dev, TRUE)]

\* The loop run over self.packages itself, which grows while it is read.
GetSubpackages_live_list ==
  /\ pc = "get_subpackages"
  /\ idx <= Len(packages)
  /\ \E status \in Responses(packages[idx].name) :
       LET resp == _pypi_req(packages[idx].name, status)
           subs == Subpackages(packages[idx], resp.json)
       IN /\ hist' = [hist EXCEPT !.fetches = @ + 1]
          /\ IF resp.err # ""
             THEN /\ Raise(resp.err)
                  /\ UNCHANGED <<packages, lockfile_hash, idx, ncopy>>
             ELSE /\ packages' = packages \o subs
                  /\ ncopy' = Len(packages \o subs)
                  /\ lockfile_hash' = IF subs = <<>> THEN lockfile_hash ELSE NoHash
                  /\ IF get_hash(packages[idx].version_req, resp.json) = NoDigest
                     THEN /\ Raise(get_hash_err(packages[idx].version_req, resp.json))
                          /\ idx' = idx
                     ELSE idx' = idx + 1 /\ UNCHANGED <<ret, pc>>
  /\ UNCHANGED <<ondisk, cmd, threads, found_non_deps, prev, nops>>

\* One turn of "for package in self.packages.copy(): package.get_subpackages()".
GetSubpackages ==
  /\ pc = "get_subpackages"
  /\ idx <= ncopy
  /\ \E status \in Responses(packages[idx].name) :
       LET resp == _pypi_req(packages[idx].name, status)
           subs == Subpackages(packages[idx], resp.json)
       IN /\ hist' = [hist EXCEPT !.fetches = @ + 1]
          /\ IF resp.err # ""
             THEN /\ Raise(resp.err)
                  /\ UNCHANGED <<packages, lockfile_hash, idx>>
             ELSE /\ packages' = packages \o subs
                  /\ lockfile_hash' = IF subs = <<>> THEN lockfile_hash ELSE NoHash
                  /\ IF get_hash(packages[idx].version_req, resp.json) = NoDigest
                     THEN /\ Raise(get_hash_err(packages[idx].version_req, resp.json))
                          /\ idx' = idx
                     ELSE idx' = idx + 1 /\ UNCHANGED <<ret, pc>>
  /\ UNCHANGED <<ondisk, cmd, ncopy, threads, found_non_deps, prev, nops>>

\* "for package in self.packages: threading.Thread(...).start()"
StartThreads ==
  /\ pc = "get_subpackages"
  /\ idx > ncopy
  /\ threads' = [i \in 1..Len(packages) |->
                   [st |-> "started", made |-> NoDigest, err |-> ""]]
  /\ pc' = "sleep"
  /\ UNCHANGED <<ondisk, cmd, packages, lockfile_hash, idx, ncopy, found_non_deps,
                 ret, hist, prev, nops>>

\* _nthread_lock_package up to its SELECT: the thread ends on an exception or
\* when the hash is in the table already.
ThreadSelect(i) ==
  /\ i \in 1..Len(threads)
  /\ threads[i].st = "started"
  /\ \E status \in Responses(packages[i].name) :
       LET resp == _pypi_req(packages[i].name, status)
           made_hash == IF resp.err # "" THEN NoDigest
                        ELSE get_hash(packages[i].version_req, resp.json)
           err == IF resp.err # "" THEN resp.err
                  ELSE get_hash_err(packages[i].version_req, resp.json)
       IN threads' = [threads EXCEPT ![i] =
            IF made_hash = NoDigest
            THEN [st |-> "failed", made |-> NoDigest, err |-> err]
            ELSE IF HashInLock(lockfile, made_hash)
                 THEN [st |-> "done", made |-> made_hash, err |-> ""]
                 ELSE [st |-> "checked", made |-> made_hash, err |-> ""]]
  /\ hist' = [hist EXCEPT !.fetches = @ + 1]
  /\ UNCHANGED <<ondisk, pc, cmd, packages, lockfile_hash, idx, ncopy, found_non_deps,
                 ret, prev, nops>>

\* _nthread_lock_package's INSERT and commit.
ThreadInsert(i) ==
  /\ i \in 1..Len(threads)
  /\ threads[i].st = "checked"
  /\ lockfile' = [lockfile EXCEPT
                    !.rows = Append(@, LockRow(packages[i], threads[i].made))]
  /\ threads' = [threads EXCEPT ![i].st = "done"]
  /\ hist' = [hist EXCEPT !.late = @ \/ hist.hashed]
  /\ UNCHANGED <<manifest, venv_status, venvs, pc, cmd, packages, lockfile_hash,
                 idx, ncopy, found_non_deps, ret, prev, nops>>

\* The sleep of lock_proj ends, whatever the threads have done, and
\* _update_lockfile_hash stores the digest of the file as it is now.
UpdateLockfileHash ==
  /\ pc = "sleep"
  /\ lockfile_hash' = _hash_lockfile(lockfile)
  /\ manifest' = [manifest EXCEPT !.lockfile_hash = _hash_lockfile(lockfile)]
  /\ ret' = [ret EXCEPT !.lock = "false"]
  /\ hist' = [hist EXCEPT !.hashed = TRUE]
  /\ pc' = IF cmd.op = "lock" THEN "exit" ELSE "build_cache"
  /\ UNCHANGED <<lockfile, venv_status, venvs, cmd, packages, idx, ncopy, threads,
                 found_non_deps, prev, nops>>

\* -------------------------------------------------------------- build_proj
\* build_proj from _get_venv_status to the reuse test: what is left of the
\* directories and of the cache file, and how the test ends.
CacheCheck(status, dirs, hash, force_lock, use_dev_deps) ==
  IF status.set
  THEN IF ~status.has_pin
       THEN [venvs |-> dirs, venv_status |-> status, out |-> "KeyError"]
       ELSE LET left == IF status.lockfile_hash # hash
                        THEN OwpmVenv_delete(status.pin, TRUE, dirs).venvs
                        ELSE dirs
            IN IF status.pin \notin left
               THEN [venvs |-> left, venv_status |-> EmptyStatus, out |-> "rebuild"]
               ELSE IF /\ status.force_lock = force_lock
                       /\ status.use_dev_deps = use_dev_deps
                       /\ status.lockfile_hash = hash
                    THEN [venvs |-> left, venv_status |-> status, out |-> "reuse"]
                    ELSE [venvs |-> left, venv_status |-> status, out |-> "rebuild"]
  ELSE [venvs |-> dirs, venv_status |-> EmptyStatus, out |-> "rebuild"]

\* build_proj after lock_proj, up to the SELECT on the lockfile: the cache test,
\* OwpmVenv(), create_venv and _verify_lockfile_version. The lock threads touch
\* the lockfile alone, so only the SELECT at the end meets them.
BuildVenv ==
  /\ pc = "build_cache"
  /\ LET cc == CacheCheck(venv_status, venvs, lockfile_hash, cmd.force_lock,
                          cmd.use_dev_deps)
     IN /\ venv_status' = cc.venv_status
        /\ IF cc.out = "KeyError"
           THEN /\ Raise("KeyError")
                /\ UNCHANGED <<venvs, hist, found_non_deps>>
           ELSE IF cc.out = "reuse"
           THEN /\ ret' = [ret EXCEPT !.venv = venv_status.pin, !.reused = TRUE]
                /\ pc' = "exit"
                /\ UNCHANGED <<venvs, hist, found_non_deps>>
           ELSE /\ \E pin \in _get_pin(cc.venvs) :
                     /\ venvs' = cc.venvs \cup {pin}
                     /\ hist' = [hist EXCEPT !.created = pin, !.seen = lockfile.rows]
                /\ IF _verify_lockfile_version(lockfile.user_version) # ""
                   THEN /\ Raise(_verify_lockfile_version(lockfile.user_version))
                        /\ UNCHANGED found_non_deps
                   ELSE /\ found_non_deps' = SelectQuery(lockfile.rows, cmd.use_dev_deps)
                        /\ pc' = "install"
                        /\ ret' = ret
  /\ UNCHANGED <<manifest, lockfile, cmd, packages, lockfile_hash, idx, ncopy,
                 threads, prev, nops>>

\* The install loop with the cache record written even when pip failed.
Install_records_failure ==
  /\ pc = "install"
  /\ \E k \in 0..Len(found_non_deps) :
       /\ venv_status' = NewStatus(hist.created, lockfile_hash, cmd.force_lock,
                                   cmd.use_dev_deps)
       /\ IF k < Len(found_non_deps)
          THEN /\ hist' = [hist EXCEPT !.installs = SubSeq(found_non_deps, 1, k + 1)]
               /\ Raise("ExceptionCorruptPackage")
          ELSE /\ hist' = [hist EXCEPT !.installs = found_non_deps]
               /\ ret' = [ret EXCEPT !.venv = hist.created]
               /\ pc' = "exit"
  /\ UNCHANGED <<manifest, lockfile, venvs, cmd, packages, lockfile_hash, idx,
                 ncopy, threads, found_non_deps, prev, nops>>

\* The install loop and what follows it: pip succeeds on the first k rows;
\* either it fails on the next one, or the loop ends and the cache record is
\* written and the venv returned.
Install ==
  /\ pc = "install"
  /\ \E k \in 0..Len(found_non_deps) :
       IF k < Len(found_non_deps)
       THEN /\ hist' = [hist EXCEPT !.installs = SubSeq(found_non_deps, 1, k + 1)]
            /\ Raise("ExceptionCorruptPackage")
            /\ UNCHANGED venv_status
       ELSE /\ hist' = [hist EXCEPT !.installs = found_non_deps]
            /\ venv_status' = NewStatus(hist.created, lockfile_hash, cmd.force_lock,
                                        cmd.use_dev_deps)
            /\ ret' = [ret EXCEPT !.venv = hist.created]
            /\ pc' = "exit"
  /\ UNCHANGED <<manifest, lockfile, venvs, cmd, packages, lockfile_hash, idx,
                 ncopy, threads, found_non_deps, prev, nops>>

\* The process ends once the main thread and every lock thread have ended.
ThreadsEnded == \A i \in 1..Len(threads) : threads[i].st \in {"done", "failed"}

Exit ==
  /\ pc = "exit"
  /\ ThreadsEnded
  /\ pc' = "idle"
  /\ prev' = [cmd |-> cmd, ret |-> ret]
  /\ cmd' = NoCmd
  /\ packages' = <<>>
  /\ lockfile_hash' = NoHash
  /\ idx' = 1
  /\ ncopy' = 0
  /\ threads' = <<>>
  /\ found_non_deps' = <<>>
  /\ ret' = NoRet
  /\ hist' = NoHist
  /\ UNCHANGED <<ondisk, nops>>

\* ----------------------------------------------------------------- add, rem
\* Project.remove_cached_venv on the loaded project.
remove_cached_venv(status, hash, dirs) ==
  IF status.set /\ status.lockfile_hash = hash
  THEN IF ~status.has_pin
       THEN [venvs |-> dirs, venv_status |-> status, err |-> "KeyError"]
       ELSE LET d == OwpmVenv_delete(status.pin, TRUE, dirs)
            IN [venvs |-> d.venvs,
                venv_status |-> IF d.err = "" THEN EmptyStatus ELSE status,
                err |-> d.err]
  ELSE [venvs |-> dirs, venv_status |-> status, err |-> ""]

\* Package.__init__ called once per name: the list grows, and the hash is
\* wiped when should_rem_hash is set.
NewPackages(proj, names, is_dev, should_rem_hash) ==
  [packages |-> proj.packages \o
                  [i \in 1..Len(names) |-> Package(names[i], Star, is_dev, FALSE)],
   lockfile_hash |-> IF should_rem_hash /\ names # <<>> THEN NoHash
                     ELSE proj.lockfile_hash]

\* remove_packages without its "self.lockfile_hash = ''".
remove_packages_keeps_hash(proj, to_remove) ==
  [packages |-> SelectSeq(proj.packages, LAMBDA p : p \notin to_remove),
   lockfile_hash |-> proj.lockfile_hash]

\* Project.remove_packages without its save_proj.
remove_packages(proj, to_remove) ==
  [packages |-> SelectSeq(proj.packages, LAMBDA p : p \notin to_remove),
   lockfile_hash |-> NoHash]

\* The commands that only edit files run without threads: one step each.
Done(op, error) ==
  /\ prev' = [cmd |-> [NoCmd EXCEPT !.op = op], ret |-> [NoRet EXCEPT !.error = error]]
  /\ nops' = nops + 1
  /\ UNCHANGED <<lockfile, pc, cmd, packages, lockfile_hash, idx, ncopy, threads,
                 found_non_deps, ret, hist>>

\* `owpm add [-d] names`
Add(names, dev) ==
  /\ pc = "idle"
  /\ nops < MaxOps
  /\ LET rc == remove_cached_venv(venv_status, manifest.lockfile_hash, venvs)
         proj == NewPackages(manifest, names, dev, TRUE)
     IN /\ venvs' = rc.venvs
        /\ venv_status' = rc.venv_status
        /\ manifest' = IF rc.err # "" THEN manifest
                       ELSE [packages |-> save_proj(proj.packages),
                             lockfile_hash |-> proj.lockfile_hash]
        /\ Done("add", rc.err)

\* `owpm rem [-d] names`
Rem(names, dev) ==
  /\ pc = "idle"
  /\ nops < MaxOps
  /\ LET rc == remove_cached_venv(venv_status, manifest.lockfile_hash, venvs)
         found == {p \in {manifest.packages[i] : i \in 1..Len(manifest.packages)} :
                     p.name \in names /\ p.is_dev = dev}
         proj == remove_packages(manifest, found)
     IN /\ venvs' = rc.venvs
        /\ venv_status' = rc.venv_status
        /\ manifest' = IF rc.err # "" THEN manifest
                       ELSE [packages |-> save_proj(proj.packages),
                             lockfile_hash |-> proj.lockfile_hash]
        /\ Done("rem", rc.err)

\* `owpm clean`
Clean ==
  /\ pc = "idle"
  /\ nops < MaxOps
  /\ venvs' = {}
  /\ venv_status' = EmptyStatus
  /\ manifest' = manifest
  /\ Done("clean", "")

\* A venv directory removed by hand, between two commands.
ManualDelete(pin) ==
  /\ pc = "idle"
  /\ pin \in venvs
  /\ venvs' = venvs \ {pin}
  /\ UNCHANGED <<manifest, lockfile, venv_status, pc, cmd, packages, lockfile_hash,
                 idx, ncopy, threads, found_non_deps, ret, hist, prev, nops>>

\* ----------------------------------------------------------- specifications
\* What a process does after its command line is read.
LockSteps ==
  \/ GetSubpackages
  \/ StartThreads
  \/ \E i \in 1..Len(threads) : ThreadSelect(i)
  \/ \E i \in 1..Len(threads) : ThreadInsert(i)
  \/ UpdateLockfileHash
  \/ Exit

BuildSteps ==
  \/ BuildVenv
  \/ Install

\* Locking and editing: `owpm lock`, `owpm add`, `owpm rem`.
LockManifests ==
  { <<>>,
    <<Root("a", FALSE), Root("a", TRUE)>>,
    <<Root("p", FALSE)>>,
    <<Root("q", FALSE)>>,
    <<Root("a", FALSE), Root("e", FALSE)>> }

InitLock == InitWith(LockManifests)

NextLock ==
  \/ \E force_lock \in BOOLEAN : Lock(force_lock)
  \/ \E dev \in BOOLEAN : Add(<<"a">>, dev)
  \/ \E dev \in BOOLEAN : Rem({"a"}, dev)
  \/ LockSteps

SpecLock == InitLock /\ [][NextLock]_vars

\* Building: `owpm build`, `owpm clean`, and venv directories removed by hand.
BuildManifests ==
  { <<>>,
    <<Root("a", FALSE)>>,
    <<Root("a", FALSE), Root("b", TRUE)>> }

InitBuild == InitWith(BuildManifests)

NextBuild ==
  \/ \E force_lock \in BOOLEAN, use_dev_deps \in BOOLEAN : Build(force_lock, use_dev_deps)
  \/ Clean
  \/ \E pin \in venvs : ManualDelete(pin)
  \/ LockSteps
  \/ BuildSteps

SpecBuild == InitBuild /\ [][NextBuild]_vars

\* Choosing a distribution: `owpm lock` on a manifest, written by hand, with
\* one package and one requirement on it.
SelectNames == {"a", "c", "d", "e"}

SelectReqs(name) ==
  { Star,
    <<name>>,
    <<name, " ", "(>=2)">>,
    <<name, " ", "(>=2)", ";", "extra">>,
    <<name, " ", "(>=4)">>,
    <<">=2">> }

SelectManifests ==
  UNION { { <<Package(name, req, FALSE, FALSE)>> : req \in SelectReqs(name) } :
          name \in SelectNames }

InitSelect == InitWith(SelectManifests)

NextSelect ==
  \/ \E force_lock \in BOOLEAN : Lock(force_lock)
  \/ LockSteps

SpecSelect == InitSelect /\ [][NextSelect]_vars

\* Two parents of one package: `owpm lock` on a manifest with s and t, which
\* both require c, each with its own constraint.
InitParents == InitWith({ <<Root("s", FALSE), Root("t", FALSE)>> })

SpecParents == InitParents /\ [][NextSelect]_vars

\* Cycles and repeats in the registry: `owpm lock` on x, which requires
\* itself, on y and z, which require each other, and on p, which requires c
\* twice. The main thread runs its loop to the end: the turns of the loop and
\* the start of the threads are taken when they can be.
CycleManifests ==
  { <<Root("x", FALSE)>>,
    <<Root("y", FALSE), Root("z", FALSE)>>,
    <<Root("p", FALSE)>> }

InitCycle == InitWith(CycleManifests)

SpecCycle ==
  /\ InitCycle
  /\ [][NextSelect]_vars
  /\ WF_vars(GetSubpackages)
  /\ WF_vars(StartThreads)

\* The build cache: `owpm build`, `owpm add`, `owpm rem`, `owpm clean`, with
\* what other runs left behind: a lockfile written by an owpm release with
\* another OWPM_LOCKFILE_VERSION, and, under owpm_venv/, which all projects
\* share, the venv of a build that did not get to write its record.
OldLockfile ==
  [exists |-> TRUE, user_version |-> OWPM_LOCKFILE_VERSION - 1,
   rows |-> <<LockRow(Root("a", FALSE), "ha")>>]

CacheManifests ==
  { <<Root("a", FALSE)>>,
    <<Root("a", FALSE), Root("b", TRUE)>> }

\* No command running, no cache record; the manifest holds the digest of the
\* lockfile it comes with.
InitFiles(manifests, lockfiles, dirs) ==
  /\ lockfile \in lockfiles
  /\ manifest \in [packages : manifests,
                    lockfile_hash : {IF lockfile.exists THEN _hash_lockfile(lockfile)
                                     ELSE NoHash}]
  /\ venv_status = EmptyStatus
  /\ venvs \in dirs
  /\ pc = "idle"
  /\ cmd = NoCmd
  /\ packages = <<>>
  /\ lockfile_hash = NoHash
  /\ idx = 1
  /\ ncopy = 0
  /\ threads = <<>>
  /\ found_non_deps = <<>>
  /\ ret = NoRet
  /\ hist = NoHist
  /\ prev = NoPrev
  /\ nops = 0

InitCache == InitFiles(CacheManifests, {NoLockfile, OldLockfile}, {{}, {0}})

NextCache ==
  \/ \E force_lock \in BOOLEAN, use_dev_deps \in BOOLEAN : Build(force_lock, use_dev_deps)
  \/ Add(<<"b">>, FALSE)
  \/ Rem({"a"}, FALSE)
  \/ Clean
  \/ \E pin \in venvs : ManualDelete(pin)
  \/ LockSteps
  \/ BuildSteps

SpecCache == InitCache /\ [][NextCache]_vars

\* `owpm build` on a project that an owpm release with another
\* OWPM_LOCKFILE_VERSION may have locked.
InitSchema == InitFiles({<<Root("a", FALSE)>>}, {NoLockfile, OldLockfile}, {{}})

SpecSchema == InitSchema /\ [][NextBuild]_vars

\* ------------------------------------------------------------------ claims
\* The command has run to its end: the main thread returned or raised, and
\* every lock thread ended.
Finished == pc = "exit" /\ ThreadsEnded

\* The command before this one was a build that returned a venv.
PrevBuilt ==
  /\ prev.cmd.op = "build"
  /\ prev.ret.error = ""
  /\ prev.ret.venv # NoVenv

\* C1: a build that follows a successful build of the same manifest with the
\* same flags, the first venv still on disk, calls pip zero times, creates no
\* venv and returns the venv whose pin is in the cache record.
C1_SecondBuildReuses ==
  (/\ Finished
   /\ cmd.op = "build"
   /\ PrevBuilt
   /\ prev.cmd.force_lock = cmd.force_lock
   /\ prev.cmd.use_dev_deps = cmd.use_dev_deps
   /\ prev.ret.venv \in hist.entry.venvs)
  => /\ hist.installs = <<>>
     /\ hist.created = NoVenv
     /\ ret.error = ""
     /\ venv_status.set
     /\ ret.venv = venv_status.pin

\* The rows of the lockfile that a build with this flag should install.
FlagSubset(rows, use_dev_deps) ==
  IF use_dev_deps
  THEN SelectSeq(rows, LAMBDA r : ~r.is_dep)
  ELSE SelectSeq(rows, LAMBDA r : ~r.is_dev /\ ~r.is_dep)

\* C2: a build that follows a successful build with the other use_dev_deps, the
\* fingerprint unchanged, and that returns with rows to install, has created a
\* new venv, called pip at least once and written the cache record with the
\* new pin and the new flags.
C2_FlagChangeRebuilds ==
  (/\ Finished
   /\ cmd.op = "build"
   /\ PrevBuilt
   /\ prev.cmd.use_dev_deps # cmd.use_dev_deps
   /\ manifest.lockfile_hash = hist.entry.manifest.lockfile_hash
   /\ ret.error = ""
   /\ FlagSubset(lockfile.rows, cmd.use_dev_deps) # <<>>)
  => /\ hist.created \in Pins
     /\ hist.created \notin hist.entry.venvs
     /\ Len(hist.installs) >= 1
     /\ venv_status.set
     /\ venv_status.has_pin
     /\ venv_status.pin = hist.created
     /\ venv_status.force_lock = cmd.force_lock
     /\ venv_status.use_dev_deps = cmd.use_dev_deps

\* C3: the rows a rebuilding build selects for pip are the non-dev root rows
\* when use_dev_deps is false and all root rows when it is true.
C3_InstallSubset ==
  pc = "install" => found_non_deps = FlagSubset(hist.seen, cmd.use_dev_deps)

\* C4: when lock_proj has relocked, no thread inserted a row after the
\* fingerprint was taken, and the manifest holds the fingerprint of the final
\* lockfile.
C4_FingerprintAfterJoin ==
  (Finished /\ ret.lock = "false")
  => /\ ~hist.late
     /\ manifest.lockfile_hash = _hash_lockfile(lockfile)

\* The content hashes the lock threads produced.
Produced == {threads[i].made : i \in 1..Len(threads)} \ {NoDigest}

\* C5: once all lock threads have ended, no content hash has two rows and the
\* lockfile has one row per content hash produced.
C5_OneRowPerHash ==
  (Finished /\ ret.lock = "false")
  => /\ \A i, j \in 1..Len(lockfile.rows) :
          lockfile.rows[i].hash = lockfile.rows[j].hash => i = j
     /\ Len(lockfile.rows) = Cardinality(Produced)

\* C6: an unforced lock that follows an unforced lock which returned false,
\* and that returns, returns true and leaves the manifest's fingerprint as the first lock set it.
C6_SecondLockIsSmart ==
  (/\ Finished
   /\ cmd.op = "lock" /\ ~cmd.force_lock
   /\ prev.cmd.op = "lock" /\ ~prev.cmd.force_lock
   /\ prev.ret.error = "" /\ prev.ret.lock = "false"
   /\ ret.error = "")
  => /\ ret.lock = "true"
     /\ manifest.lockfile_hash = hist.entry.manifest.lockfile_hash

\* The resolution of a root package failed: in get_subpackages, or in its thread.
RootFailed ==
  \/ ret.error # ""
  \/ \E i \in 1..Len(threads) : threads[i].st = "failed" /\ ~packages[i].is_dep

\* C7: when the resolution of a root package failed, the lock reports the
\* failure and no lockfile is on disk.
C7_FailedLockLeavesNoLockfile ==
  (Finished /\ cmd.op = "lock" /\ RootFailed)
  => /\ ret.error # ""
     /\ ~lockfile.exists

\* C8: when the fetch or the choice of a distribution failed for a package of
\* a lock thread, lock_proj has not returned normally, and the manifest does not
\* hold the fingerprint of the lockfile that lacks the row.
C8_NoPartialLock ==
  (/\ Finished
   /\ cmd.op = "lock"
   /\ \E i \in 1..Len(threads) : threads[i].st = "failed")
  => /\ ret.lock # "false"
     /\ manifest.lockfile_hash # _hash_lockfile(lockfile)

\* lock_proj found, when it was called, a lockfile whose digest is the
\* manifest's lockfile_hash, and was not forced.
SmartAtEntry ==
  /\ ~cmd.force_lock
  /\ hist.entry.lockfile.exists
  /\ _hash_lockfile(hist.entry.lockfile) = hist.entry.manifest.lockfile_hash

\* Every row of the lockfile was inserted by a thread of this lock_proj.
RowsAreFresh ==
  \A k \in 1..Len(lockfile.rows) :
    \E i \in 1..Len(threads) :
      /\ threads[i].st = "done"
      /\ lockfile.rows[k] = LockRow(packages[i], threads[i].made)

\* C9 as written: smart-locked, lock_proj returns true, fetches nothing and
\* leaves lockfile and manifest alone; otherwise it relocks and returns false.
C9_SmartLockOrFalse ==
  cmd.op = "lock" =>
    IF SmartAtEntry
    THEN /\ ret.lock = "true"
         /\ hist.fetches = 0
         /\ lockfile = hist.entry.lockfile
         /\ manifest = hist.entry.manifest
    ELSE Finished => ret.lock = "false"

\* C9, amended: smart-locked, lock_proj returns true, fetches nothing and
\* leaves lockfile and manifest alone; otherwise it never returns true, it
\* replaces the lockfile by a fresh one that only this run's threads fill, and
\* it returns false unless get_subpackages raised for a root package.
C9_SmartLockOrRelock ==
  cmd.op = "lock" =>
    IF SmartAtEntry
    THEN /\ ret.lock = "true"
         /\ hist.fetches = 0
         /\ lockfile = hist.entry.lockfile
         /\ manifest = hist.entry.manifest
    ELSE /\ ret.lock # "true"
         /\ lockfile.exists
         /\ RowsAreFresh
         /\ Finished =>
              \/ ret.error # "" /\ ret.lock = "none"
              \/ /\ ret.error = "" /\ ret.lock = "false"
                 /\ hist.hashed
                 /\ hist.fetches >= ncopy
                 /\ Len(threads) = Len(packages)

\* An unforced lock found its own earlier lockfile, rows and all, and returned
\* true.
C9_Witness ==
  /\ Finished
  /\ cmd.op = "lock"
  /\ SmartAtEntry
  /\ ret.lock = "true"
  /\ prev.cmd.op = "lock" /\ prev.ret.lock = "false"
  /\ Len(lockfile.rows) > 0

\* The command before this one was an add or a rem that went through.
PrevEdited == prev.cmd.op \in {"add", "rem"} /\ prev.ret.error = ""

\* C10: after add or rem the manifest's lockfile_hash is the empty string, and
\* the unforced lock that follows is not smart-locked.
C10_EditClearsFingerprint ==
  /\ (pc = "idle" /\ PrevEdited) => manifest.lockfile_hash = NoHash
  /\ (cmd.op = "lock" /\ ~cmd.force_lock /\ PrevEdited) => ret.lock # "true"

\* A package was added to a manifest that had been locked.
C10_Witness ==
  /\ pc = "idle"
  /\ prev.cmd.op = "add" /\ prev.ret.error = ""
  /\ Len(manifest.packages) >= 2
  /\ Len(lockfile.rows) > 0
  /\ manifest.lockfile_hash = NoHash

\* The cache record names the venv this build created.
RecordsCreated ==
  /\ venv_status.set
  /\ venv_status.has_pin
  /\ venv_status.pin = hist.created

\* C11: when pip fails the build raises ExceptionCorruptPackage, the failed
\* call is the last call to pip, no venv is returned and the cache record is
\* the one the cache test left, which does not name the new venv; a record
\* that names the new venv was written after pip succeeded on every selected
\* row.
C11_InstallFailureIsFatal ==
  /\ (cmd.op = "build" /\ ret.error = "ExceptionCorruptPackage") =>
       /\ pc = "exit"
       /\ ret.venv = NoVenv
       /\ Len(hist.installs) \in 1..Len(found_non_deps)
       /\ hist.installs = SubSeq(found_non_deps, 1, Len(hist.installs))
       /\ ~RecordsCreated
       /\ venv_status \in {hist.entry.venv_status, EmptyStatus}
  /\ (cmd.op = "build" /\ hist.created # NoVenv /\ RecordsCreated) =>
       /\ ret.error = ""
       /\ hist.installs = found_non_deps

\* pip failed on the second of two rows, in a build that found the record
\* and the venv of an earlier build.
C11_Witness ==
  /\ Finished
  /\ cmd.op = "build"
  /\ ret.error = "ExceptionCorruptPackage"
  /\ Len(hist.installs) = 2
  /\ hist.entry.venv_status.set
  /\ hist.created \in Pins

\* C12: a build that gets to read the rows of a lockfile whose user_version
\* is not OWPM_LOCKFILE_VERSION raises ExceptionOldLockfileSpec before it
\* selects a row: it calls pip for nothing, returns no venv and leaves the
\* cache record as the cache test left it.
C12_OldSchemaStopsBuild ==
  /\ (/\ cmd.op = "build"
      /\ hist.created # NoVenv
      /\ lockfile.user_version # OWPM_LOCKFILE_VERSION)
     => ret.error = "ExceptionOldLockfileSpec"
  /\ (cmd.op = "build" /\ ret.error = "ExceptionOldLockfileSpec") =>
       /\ pc = "exit"
       /\ lockfile.user_version # OWPM_LOCKFILE_VERSION
       /\ found_non_deps = <<>>
       /\ hist.installs = <<>>
       /\ ret.venv = NoVenv
       /\ ~RecordsCreated
       /\ venv_status \in {hist.entry.venv_status, EmptyStatus}

\* An unforced build smart-locked on a lockfile with another user_version,
\* rows in it, and stopped.
C12_Witness ==
  /\ Finished
  /\ cmd.op = "build"
  /\ ret.lock = "true"
  /\ ret.error = "ExceptionOldLockfileSpec"
  /\ Len(lockfile.rows) > 0
  /\ hist.created # NoVenv

\* The places, in the registry's order, of the releases of `name` that the
\* constraint of `req` admits and that have a distribution.
Matching(name, req) ==
  {k \in 1..Len(Registry[name].releases) :
     /\ Registry[name].releases[k].version \in SpecifierOf(req)
     /\ Len(Registry[name].releases[k].content) > 0}

\* What the choice of a distribution for package p has to give.
FirstMatch(p, made, err) ==
  LET m == Matching(p.name, p.version_req)
      first == CHOOSE k \in m : \A l \in m : k <= l
  IN IF m = {}
     THEN made = NoDigest /\ err = "ExceptionVersionError"
     ELSE err = "" /\ made = Registry[p.name].releases[first].content[1]

\* get_subpackages raised on the choice of a distribution for packages[idx].
ChoiceRaised ==
  /\ cmd.op = "lock"
  /\ pc = "exit"
  /\ ret.error \notin {"", "ExceptionApiDown", "ExceptionPackageNotFound"}

\* C13: for a requirement other than "*", get_hash gives the digest of the first
\* release, in the registry's order, that the constraint admits and that has a
\* distribution, and raises ExceptionVersionError when there is none: in a
\* lock thread, and in get_subpackages for a root package.
C13_FirstMatchingRelease ==
  /\ \A i \in 1..Len(threads) :
       (threads[i].st # "started" /\ packages[i].version_req # Star
        /\ threads[i].err \notin {"ExceptionApiDown", "ExceptionPackageNotFound"})
       => FirstMatch(packages[i], threads[i].made, threads[i].err)
  /\ (ChoiceRaised /\ packages[idx].version_req # Star)
     => FirstMatch(packages[idx], NoDigest, ret.error)

\* C14: for the requirement "*", get_hash gives the first digest of "urls", and
\* raises ExceptionVersionError when "urls" is empty; the lockfile gets no row
\* for such a package.
C14_StarTakesFirstUrl ==
  /\ \A i \in 1..Len(threads) :
       (threads[i].st # "started" /\ packages[i].version_req = Star
        /\ threads[i].err \notin {"ExceptionApiDown", "ExceptionPackageNotFound"})
       => /\ Len(Registry[packages[i].name].urls) > 0
          /\ threads[i].err = ""
          /\ threads[i].made = Registry[packages[i].name].urls[1]
  /\ (ChoiceRaised /\ packages[idx].version_req = Star)
     => /\ ret.error = "ExceptionVersionError"
        /\ Len(Registry[packages[idx].name].urls) = 0
  /\ (cmd.op = "lock" /\ pc \in {"sleep", "exit"} /\ ret.error = "")
     => \A i \in 1..ncopy :
          packages[i].version_req = Star => Len(Registry[packages[i].name].urls) > 0
  /\ \A k \in 1..Len(lockfile.rows) :
       lockfile.rows[k].version = Star => Len(Registry[lockfile.rows[k].name].urls) > 0

\* The lock of a package that has a release and no distribution, required as
\* "*", ended in get_subpackages.
C14_Witness ==
  /\ Finished
  /\ cmd.op = "lock"
  /\ packages[idx] = Root("e", FALSE)
  /\ ret.error = "ExceptionVersionError"
  /\ threads = <<>>
  /\ lockfile.rows = <<>>

\* C15: after a lock that returned false with no thread failed, every
\* requirement that the registry declares for a package with a row in the
\* lockfile names a package that was expanded and resolved in this lock.
C15_TransitiveClosure ==
  (/\ Finished
   /\ cmd.op = "lock"
   /\ ret.lock = "false"
   /\ \A i \in 1..Len(threads) : threads[i].st = "done")
  => \A k \in 1..Len(lockfile.rows) :
       LET required == Registry[lockfile.rows[k].name].requires_dist
       IN \A j \in 1..Len(required) :
            \E i \in 1..Len(packages) :
              /\ packages[i].name = SubpkgName(required[j])
              /\ packages[i].is_dep
              /\ threads[i].st = "done"

\* build_proj is past its cache test.
BuildRan ==
  /\ cmd.op = "build"
  /\ pc \in {"install", "exit"}
  /\ ret.lock # "none"

\* The build found a cache record whose fingerprint is not the manifest's.
StaleFingerprint ==
  /\ hist.entry.venv_status.set
  /\ hist.entry.venv_status.lockfile_hash # manifest.lockfile_hash

\* The build found a cache record whose venv directory was gone.
MissingStorage ==
  /\ hist.entry.venv_status.set
  /\ hist.entry.venv_status.pin \notin hist.entry.venvs

\* C16: a build that found a cache record with another fingerprint than the
\* manifest's has removed the old venv's directory and the old record; when it
\* returns, the record holds the pin of the venv it created, the manifest's
\* fingerprint and the flags of the call.
C16_StaleFingerprintRebuild ==
  (BuildRan /\ StaleFingerprint)
  => /\ \/ hist.entry.venv_status.pin \notin venvs
        \/ hist.entry.venv_status.pin = hist.created
     /\ venv_status # hist.entry.venv_status
     /\ (Finished /\ ret.error = "")
        => /\ hist.created \in Pins
           /\ ret.venv = hist.created
           /\ venv_status.has_pin
           /\ venv_status = NewStatus(hist.created, manifest.lockfile_hash,
                                       cmd.force_lock, cmd.use_dev_deps)

\* C17: a build whose lock_proj returned and that found a cache record whose
\* venv directory is gone, or whose fingerprint is not the manifest's, raises
\* nothing unless pip fails: it creates a venv, calls pip for every selected
\* row and writes a record with the manifest's fingerprint and its flags.
C17_StalenessFallsBack ==
  (/\ Finished
   /\ cmd.op = "build"
   /\ ret.lock # "none"
   /\ StaleFingerprint \/ MissingStorage
   /\ ret.error # "ExceptionCorruptPackage")
  => /\ ret.error = ""
     /\ hist.created # NoVenv
     /\ hist.created \in venvs
     /\ hist.installs = found_non_deps
     /\ venv_status.set
     /\ venv_status.lockfile_hash = manifest.lockfile_hash
     /\ venv_status.force_lock = cmd.force_lock
     /\ venv_status.use_dev_deps = cmd.use_dev_deps

\* C18: deleting the cached venv when its directory is gone already is no
\* failure: a build that found a record with a pin, another fingerprint and no
\* directory does not raise ExceptionVenvInactive, and neither do add and rem.
C18_DeleteToleratesMissing ==
  /\ (/\ cmd.op = "build"
      /\ hist.entry.venv_status.has_pin
      /\ StaleFingerprint
      /\ MissingStorage)
     => ret.error \notin {"ExceptionVenvInactive", "KeyError"}
  /\ (pc = "idle" /\ prev.cmd.op \in {"add", "rem"})
     => prev.ret.error # "ExceptionVenvInactive"

\* C19: when every draw of _get_pin hits an existing directory, no venv comes
\* out of it: no build has the pin None, and there is no directory
\* owpm_venv/None.
C19_PinExhaustionFails ==
  /\ hist.created # NonePin
  /\ ret.venv # NonePin
  /\ NonePin \notin venvs

\* C20: the pin of a venv that a build creates is not the pin of a directory
\* that exists when the venv is created.
C20_PinsUnique ==
  [][(pc = "build_cache" /\ hist'.created # NoVenv)
     => hist'.created \notin CacheCheck(venv_status, venvs, lockfile_hash,
                                       cmd.force_lock, cmd.use_dev_deps).venvs]_vars

\* The packages lock_proj has called get_subpackages for and got the
\* sub-requirements of: the first idx - 1 of the copied list.
Expanded == 1..(idx - 1)

\* C21: in one lock_proj no package name is expanded twice.
C21_ExpandedOncePerName ==
  cmd.op \in {"lock", "build"} =>
    \A i, j \in Expanded : packages[i].name = packages[j].name => i = j

\* The requirement string under which `name` was first met as a dependency.
FirstRequirement(name) ==
  LET met == {i \in 1..Len(packages) : packages[i].is_dep /\ packages[i].name = name}
  IN packages[CHOOSE i \in met : \A j \in met : i <= j].version_req

\* C22: after a lock that returned false with no thread failed, the lockfile
\* has at most one row for a package name, and the row of a dependency carries
\* the requirement string under which the name was first met.
C22_FirstConstraintKept ==
  (/\ Finished
   /\ cmd.op = "lock"
   /\ ret.lock = "false"
   /\ \A i \in 1..Len(threads) : threads[i].st = "done")
  => /\ \A k, l \in 1..Len(lockfile.rows) :
          lockfile.rows[k].name = lockfile.rows[l].name => k = l
     /\ \A k \in 1..Len(lockfile.rows) :
          lockfile.rows[k].is_dep
          => lockfile.rows[k].version = FirstRequirement(lockfile.rows[k].name)

\* C23: the loop of lock_proj over get_subpackages sends one request for each
\* package of the manifest at most, and comes to its end, whatever the
\* registry's requirements are.
C23_ExpansionTerminates ==
  /\ [](pc = "get_subpackages"
        => /\ hist.fetches = idx - 1
           /\ idx <= Len(manifest.packages) + 1)
  /\ (pc = "get_subpackages") ~> (pc # "get_subpackages")

\* The expansion of y and z, which require each other, has ended after two
\* requests.
C23_Witness ==
  /\ pc = "sleep"
  /\ cmd.op = "lock"
  /\ manifest.packages = <<Root("y", FALSE), Root("z", FALSE)>>
  /\ Len(packages) = 4
  /\ packages[3].name = "z" /\ packages[4].name = "y"
  /\ hist.fetches = 2

\* The calls of _pypi_req made by get_subpackages, and by the lock threads.
MainCalls ==
  IF ret.lock = "true" THEN 0
  ELSE IF ret.lock = "none" /\ ret.error # "" THEN idx
  ELSE idx - 1

ThreadCalls == Cardinality({i \in 1..Len(threads) : threads[i].st # "started"})

\* What a call of _pypi_req for `name` ended with agrees with a status the
\* registry answers for that name.
Mapped(name, err) ==
  /\ err = "ExceptionPackageNotFound" => 404 \in Responses(name)
  /\ err = "ExceptionApiDown" => Responses(name) \ {200, 404} # {}
  /\ err \notin {"ExceptionPackageNotFound", "ExceptionApiDown"}
     => 200 \in Responses(name)

\* C24: every call of _pypi_req sends one request; 200 gives the body, 404
\* raises ExceptionPackageNotFound, any other status raises ExceptionApiDown,
\* and the caller the exception ends sends no request again.
C24_OneRequestMapped ==
  cmd.op = "lock" =>
    /\ hist.fetches = MainCalls + ThreadCalls
    /\ \A i \in 1..Len(threads) :
         threads[i].st # "started" => Mapped(packages[i].name, threads[i].err)
    /\ (ret.lock = "none" /\ ret.error # "") => Mapped(packages[idx].name, ret.error)
    /\ \A i \in 1..Len(threads) :
         threads[i].err \in {"ExceptionPackageNotFound", "ExceptionApiDown"}
         => threads[i].st = "failed" /\ threads[i].made = NoDigest

\* The thread of a package the registry does not know ended on
\* ExceptionPackageNotFound, and the process ended.
C24_Witness ==
  /\ Finished
  /\ cmd.op = "lock"
  /\ \E i \in 1..Len(threads) :
       /\ threads[i].err = "ExceptionPackageNotFound"
       /\ packages[i].name \notin DOMAIN Registry
  /\ hist.fetches = 1 + Len(threads)

\* The venv directories are those the cache record accounts for.
NoOrphan(dirs, status) ==
  dirs \subseteq (IF status.set THEN {status.pin} ELSE {})

\* C25: a build that started with no venv directory but that of the cache
\* record, and that returns a venv, ends with the directory of the record's
\* venv and no other.
C25_NoOrphanVenv ==
  (/\ Finished
   /\ cmd.op = "build"
   /\ ret.error = ""
   /\ NoOrphan(hist.entry.venvs, hist.entry.venv_status))
  => /\ venv_status.set
     /\ venvs = {venv_status.pin}

\* C26: when build_proj returns a venv, the cache record holds that venv's
\* pin, the manifest's lockfile_hash and the flags of the call, and the
\* venv's directory exists.
C26_ReturnedVenvIsRecorded ==
  (Finished /\ cmd.op = "build" /\ ret.error = "")
  => /\ ret.venv # NoVenv
     /\ venv_status.set
     /\ venv_status.has_pin
     /\ venv_status.pin = ret.venv
     /\ ret.venv \in venvs
     /\ venv_status.lockfile_hash = manifest.lockfile_hash
     /\ venv_status.force_lock = cmd.force_lock
     /\ venv_status.use_dev_deps = cmd.use_dev_deps

====
